---- MODULE Spec2Model ----
(***************************************************************************)
(* Coordination core of agent-factory: dependency batching of the feature  *)
(* coordinator (src/agents/coordinator/task_coordinator.py) and the PRP    *)
(* workflow, assignment, delegation and await protocol of the agent        *)
(* coordinator (src/agent_factory/agents/coordinator.py).                  *)
(***************************************************************************)
EXTENDS Integers, Sequences, FiniteSets, TLC

\* ---------------------------------------------------------------- bounds
\* Largest task list handed to _coordinate_implementation_tasks.
MaxDagTasks == 3

\* Python's None, where an agent id or another string may stand.
None == "None"

SeqToSet(s) == {s[i] : i \in 1..Len(s)}

RECURSIVE SeqFilter(_, _)
\* The subsequence of s whose elements are in the set S (list comprehension).
SeqFilter(s, S) ==
    IF s = <<>> THEN <<>>
    ELSE IF Head(s) \in S THEN <<Head(s)>> \o SeqFilter(Tail(s), S)
         ELSE SeqFilter(Tail(s), S)

VARIABLES
    \* --- feature coordinator, _coordinate_implementation_tasks
    dag_n,              \* len(tasks): the planner's task list is <<1, ..., dag_n>>
    task_dependencies,  \* task id -> its "dependencies" list (as a set)
    completed_tasks,    \* completed_tasks
    ready_tasks,        \* ready_tasks of the current iteration, in list order
    dag_pc,             \* "off" | "loop" | "exec" | "sleep" | "done"
    dag_sent,           \* tasks of ready_tasks whose send_task was awaited
    dag_finished,       \* tasks of ready_tasks whose execute_single_task returned
    dag_errors,         \* tasks whose send_task raised (logged, line 264)
    dag_dispatched      \* task id -> number of times it was handed to send_task

dagVars == <<dag_n, task_dependencies, completed_tasks, ready_tasks, dag_pc,
             dag_sent, dag_finished, dag_errors, dag_dispatched>>

VARIABLES
    \* --- agent coordinator (agent_factory), one PRP workflow
    prp_steps,          \* prp.implementation_steps
    wf_pc,              \* _execute_task_workflow: "off" | "new" | "running" | "done"
    batch_idx,          \* index of the batch being executed
    results,            \* results of _execute_task_workflow
    runq,               \* coroutines started by a batch that did not run yet
    co_pc,              \* task id -> position of its _execute_task_impl
    co_result,          \* task id -> what its _execute_task_impl returned
    co_elapsed,         \* task id -> seconds slept by its _wait_for_task_result
    co_runs,            \* task id -> number of times _execute_task_impl was started
    available_agents,   \* the registry, in insertion order of the dict
    task_assignments,   \* task id -> agent id, None when the key is absent
    msgs_handled        \* number of coordination messages handled so far

coordVars == <<prp_steps, wf_pc, batch_idx, results, runq, co_pc, co_result,
               co_elapsed, co_runs, available_agents, task_assignments,
               msgs_handled>>

VARIABLES
    \* --- one worker (agent_factory BaseAgent)
    w_status,           \* info.status
    w_current_task,     \* info.current_task
    w_pc,               \* position of the handle_message in progress
    w_msg,              \* the message being handled
    w_outcome,          \* what _execute_task_impl did for the task at hand
    w_response,         \* the AgentResponse execute_task built
    w_error,            \* str(e) of the exception being handled
    w_sends,            \* the send_to_agent calls made for the message at hand
    w_failed,           \* the handler of the message at hand raised
    w_handled,          \* number of messages handle_message was called with
    w_escaped,          \* number of handle_message calls that raised
    w_starts,           \* number of start() calls that created a heartbeat task
    w_stopped,          \* stop() has returned and start() was not called since
    hb_live,            \* the heartbeat loops that are running
    hb_task,            \* the loop _heartbeat_task refers to, 0 for None
    hb_count            \* number of HEARTBEAT messages published

workerVars == <<w_status, w_current_task, w_pc, w_msg, w_outcome, w_response,
                w_error, w_sends, w_failed, w_handled, w_escaped, w_starts, w_stopped,
                hb_live, hb_task, hb_count>>

VARIABLES
    \* --- RedisMessageBus
    bus_client,         \* redis_client is set
    pub_last,           \* what the last publish() call did
    pub_calls,          \* number of publish() calls made
    bus_wire,           \* the redis_client.publish calls made, in order
    subscribers,        \* channel -> list of handlers
    bus_loop,           \* start_listening: "off" | "running" | "dead"
    bus_listened,       \* the channels start_listening subscribed to
    bus_inbox,          \* messages pubsub.listen() has yet to yield
    bus_received,       \* number of messages received so far
    bus_cur,            \* the message _handle_message is called with
    bus_i,              \* index of the next handler to call, 0 between messages
    bus_log             \* the handler calls made so far, in order

pubVars == <<bus_client, pub_last, pub_calls, bus_wire>>

busVars == <<pubVars, subscribers, bus_loop, bus_listened,
             bus_inbox, bus_received, bus_cur, bus_i, bus_log>>

VARIABLES
    \* --- AgentPRPProcessor.execute_prp_with_agent
    pe_prp,             \* the PRP passed in
    pe_pc,              \* "off" | "new" | "valid" | "enhanced" | "done"
    pe_validation,      \* what validate_prp returned
    pe_result,          \* what execute_prp_with_agent returned
    pe_invoked          \* number of calls of agent.process_prp

prpVars == <<pe_prp, pe_pc, pe_validation, pe_result, pe_invoked>>

VARIABLES
    \* --- the planning functions of the agent coordinator, on their own
    pl_pc,              \* "off" | "prp" | "decomposed" | "list"
    pl_steps,           \* implementation_steps of the PRP
    pl_in,              \* the task list the functions are applied to
    pl_done,            \* which of "sort" and "batch" were applied
    pl_sorted,          \* _sort_tasks_by_priority(pl_in)
    pl_batches          \* _create_task_batches(pl_in)

planVars == <<pl_pc, pl_steps, pl_in, pl_done, pl_sorted, pl_batches>>

VARIABLES
    \* --- the workers the agent coordinator delegates to
    wk_inbox,           \* the messages the coordinator sent to workers
    wk_finished,        \* tasks whose execute_task on the worker has returned
    completed_in_wait   \* tasks whose task_completed message, naming the
                        \* assigned agent, was handled during their wait,
                        \* with a poll of the wait still to come

remoteVars == <<wk_inbox, wk_finished, completed_in_wait>>

notDagVars == <<coordVars, workerVars, busVars, prpVars, planVars, remoteVars>>
notCoordVars == <<dagVars, workerVars, busVars, prpVars, planVars, remoteVars>>
notWorkerVars == <<dagVars, coordVars, busVars, prpVars, planVars, remoteVars>>
notBusVars == <<dagVars, coordVars, workerVars, prpVars, planVars, remoteVars>>
notPrpVars == <<dagVars, coordVars, workerVars, busVars, planVars, remoteVars>>
notPlanVars == <<dagVars, coordVars, workerVars, busVars, prpVars, remoteVars>>

vars == <<dagVars, coordVars, workerVars, busVars, prpVars, planVars, remoteVars>>

\* ------------------------------------------- agent coordinator: data
\* Longest prp.implementation_steps of the modelled PRPs.
MaxSteps == 3
\* The timeout given to _wait_for_task_result, in seconds.
WaitTimeout == 2
\* Coordination messages the coordinator handles in one run.
MaxMsgs == 5

\* Line 145: the first steps get priority HIGH.
HighPrioritySteps == 3
\* Line 296: the widest batch.
MaxParallel == 3

\* The task of a TASK_ASSIGNMENT sent to the coordinator itself.
ExtraTaskId == 0
TaskIds == 0..(MaxSteps + 1)
\* Python's None, where a task id may stand.
NoTask == 0 - 1

Agents == {"a1", "a2"}
\* The role each worker was constructed with.
RoleOf(a) == IF a = "a1" THEN "Coder" ELSE "tester"

\* str.lower() on the roles in use.
Lower(s) == IF s = "Coder" THEN "coder" ELSE s

\* AgentStatus members, and AgentStatus.value.
IDLE == "AgentStatus.IDLE"
BUSY == "AgentStatus.BUSY"
ERROR == "AgentStatus.ERROR"
OFFLINE == "AgentStatus.OFFLINE"
StatusValue(st) ==
    CASE st = IDLE -> "idle"
      [] st = BUSY -> "busy"
      [] st = ERROR -> "error"
      [] st = OFFLINE -> "offline"

\* AgentInfo.to_dict: the status goes out as its value.
AgentInfoToDict(info) ==
    [id |-> info.id, role |-> info.role, status |-> StatusValue(info.status),
     current_task |-> info.current_task]

\* AgentInfo(**agent_info): the dataclass stores each field as given.
AgentInfoFromDict(d) ==
    [id |-> d.id, role |-> d.role, status |-> d.status,
     current_task |-> d.current_task]

\* role_preferences.get(task_type, []).
RolePreferences(task_type) ==
    CASE task_type = "planning" -> {"planner", "architect"}
      [] task_type = "coding" -> {"coder", "developer", "programmer"}
      [] task_type = "testing" -> {"tester", "qa", "validator"}
      [] task_type = "review" -> {"reviewer", "auditor", "quality_assurance"}
      [] task_type = "deployment" -> {"devops", "deployment", "infrastructure"}
      [] task_type = "integration" -> {"integrator", "merger", "coordinator"}
      [] OTHER -> {}

\* priority_order of _sort_tasks_by_priority.
PriorityOrder(p) ==
    CASE p = "critical" -> 0
      [] p = "high" -> 1
      [] p = "medium" -> 2
      [] p = "low" -> 3

\* A step text is the set of keyword families one of whose keywords it
\* contains; the families in the order the elif chain tests them.
Families == <<"planning", "coding", "testing", "review", "deployment", "integration">>

RECURSIVE ClassifyFrom(_, _)
ClassifyFrom(step, i) ==
    IF i > Len(Families) THEN "general"
    ELSE IF Families[i] \in step THEN Families[i]
         ELSE ClassifyFrom(step, i + 1)

ClassifyImplementationStep(step) == ClassifyFrom(step, 1)

\* The step texts of the PRPs whose workflow is executed: steps with a
\* keyword of the coding family only ("implement ...").
CoordStepPool == {{"coding"}}

\* Lines 147-160 with the first HighPrioritySteps + 1 steps made HIGH.
StepTaskOneMoreHigh(steps, i) ==
    [id |-> i,
     description |-> steps[i],
     priority |-> IF i - 1 <= HighPrioritySteps THEN "high" ELSE "medium",
     task_type |-> ClassifyImplementationStep(steps[i]),
     dependencies |-> {},
     depends_on |-> {}]

\* Lines 147-160: the task of step i (1-based here, step_index i - 1).
StepTask(steps, i) ==
    [id |-> i,
     description |-> steps[i],
     priority |-> IF i - 1 < HighPrioritySteps THEN "high" ELSE "medium",
     task_type |-> ClassifyImplementationStep(steps[i]),
     dependencies |-> {},
     depends_on |-> {}]

\* Lines 163-174: the validation task; the step ids go to metadata.
ValidationTask(steps) ==
    [id |-> Len(steps) + 1,
     description |-> {"testing"},
     priority |-> "critical",
     task_type |-> "validation",
     dependencies |-> {},
     depends_on |-> 1..Len(steps)]

DecomposePrpToTasks(steps) ==
    [i \in 1..Len(steps) |-> StepTask(steps, i)] \o <<ValidationTask(steps)>>

RECURSIVE InsertByPriorityUnstable(_, _)
\* t goes before the tasks whose key equals its own.
InsertByPriorityUnstable(sorted, t) ==
    IF sorted = <<>> THEN <<t>>
    ELSE IF PriorityOrder(Head(sorted).priority) < PriorityOrder(t.priority)
         THEN <<Head(sorted)>> \o InsertByPriorityUnstable(Tail(sorted), t)
         ELSE <<t>> \o sorted

RECURSIVE InsertByPriority(_, _)
\* t goes after every task whose key is not larger than its own.
InsertByPriority(sorted, t) ==
    IF sorted = <<>> THEN <<t>>
    ELSE IF PriorityOrder(Head(sorted).priority) <= PriorityOrder(t.priority)
         THEN <<Head(sorted)>> \o InsertByPriority(Tail(sorted), t)
         ELSE <<t>> \o sorted

RECURSIVE SortTasksByPriority(_)
\* sorted(tasks, key=priority_order[...]): a stable sort.
SortTasksByPriority(tasks) ==
    IF tasks = <<>> THEN <<>>
    ELSE InsertByPriority(SortTasksByPriority(SubSeq(tasks, 1, Len(tasks) - 1)),
                          tasks[Len(tasks)])

\* Lines 294-298 with "len(current_batch) < 3" written "<= 3".
CanJoinBatchWide(current_batch, task) ==
    \/ current_batch = <<>>
    \/ (Len(current_batch) <= MaxParallel /\ task.task_type # "validation")

\* Lines 294-298: the test that appends the task to the current batch.
CanJoinBatch(current_batch, task) ==
    \/ current_batch = <<>>
    \/ (Len(current_batch) < MaxParallel /\ task.task_type # "validation")

RECURSIVE BatchLoop(_, _, _)
\* Lines 290-308: the loop over the tasks and the final flush.
BatchLoop(tasks, batches, current_batch) ==
    IF tasks = <<>>
    THEN IF current_batch # <<>> THEN Append(batches, current_batch) ELSE batches
    ELSE IF CanJoinBatch(current_batch, Head(tasks))
         THEN BatchLoop(Tail(tasks), batches, Append(current_batch, Head(tasks)))
         ELSE BatchLoop(Tail(tasks),
                        IF current_batch # <<>>
                        THEN Append(batches, current_batch) ELSE batches,
                        <<Head(tasks)>>)

CreateTaskBatches(tasks) == BatchLoop(tasks, <<>>, <<>>)

\* ExecutionResult.success / ExecutionResult.failure; an error string is the
\* pair of its wording and the task or exception it names.
EmptyOutput == [task_id |-> NoTask, agent_id |-> None]
Success(output) ==
    [is_successful |-> TRUE, output |-> output, errors |-> <<>>, artifacts |-> <<>>]
Failure(errors) ==
    [is_successful |-> FALSE, output |-> EmptyOutput, errors |-> errors,
     artifacts |-> <<>>]
\* The value of co_result while the coroutine has not returned.
NoResult == Failure(<<>>)

NoAgentError(t) == <<"No suitable agent found for task", t>>
TimedOutError(t) == <<"Task timed out", t>>
RaisedError(t) == <<"send_to_agent raised", t>>

\* The workflow of the PRP at hand.
Tasks == DecomposePrpToTasks(prp_steps)
SortedTasks == SortTasksByPriority(Tasks)
Batches == CreateTaskBatches(SortedTasks)
BatchIds(k) == [i \in 1..Len(Batches[k]) |-> Batches[k][i].id]
ValidationId == Len(prp_steps) + 1
StepIds == 1..Len(prp_steps)

\* The task with the given id: a task of the workflow or the extra task,
\* whose metadata has no task_type and whose priority is the default.
TaskOf(t) ==
    IF t = ExtraTaskId
    THEN [id |-> ExtraTaskId, description |-> {}, priority |-> "medium",
          task_type |-> "general",
          dependencies |-> {}, depends_on |-> {}]
    ELSE Tasks[t]

CoordFresh ==
    /\ batch_idx = 0
    /\ results = <<>>
    /\ runq = <<>>
    /\ co_pc = [t \in TaskIds |-> "new"]
    /\ co_result = [t \in TaskIds |-> NoResult]
    /\ co_elapsed = [t \in TaskIds |-> 0]
    /\ co_runs = [t \in TaskIds |-> 0]
    /\ available_agents = <<>>
    /\ task_assignments = [t \in TaskIds |-> None]
    /\ msgs_handled = 0

CoordOff ==
    /\ prp_steps = <<>>
    /\ wf_pc = "off"
    /\ CoordFresh

\* ------------------------------------------------------ worker: data
\* Messages handle_message is called with in one run.
MaxInbound == 2
\* start() calls in one run.
MaxStarts == 2
\* HEARTBEAT messages published in one run.
MaxHeartbeats == 3

\* The worker's agent_id.
WorkerId == "w1"
\* sender_id of the messages the worker receives.
Senders == {"coordinator", "client"}
\* correlation_id of the messages the worker receives.
Correlations == {"c1", None}
\* Ids of the tasks sent to the worker.
WorkerTaskIds == {1}
\* MessageType members the worker is sent; ERROR has no handler.
InboundTypes == {"task_assignment", "coordination", "error"}

\* A text is the sequence of its parts; None where a text may stand.
NoneText == <<"<None>">>
NoTaskDataText == <<"No task data in message">>
BusErrorText == <<"bus error">>
ImplErrorText == <<"impl error">>

\* An AgentMessage as the worker reads it: payload.get("task") is the task
\* id, NoTask when the payload has none.
NoMsg ==
    [id |-> 0, sender_id |-> None, message_type |-> "none",
     correlation_id |-> None, task |-> NoTask]

InboundMessages(id) ==
    {[id |-> id, sender_id |-> s, message_type |-> "task_assignment",
      correlation_id |-> c, task |-> t] :
        s \in Senders, c \in Correlations, t \in WorkerTaskIds \cup {NoTask}}
    \cup
    {[id |-> id, sender_id |-> "coordinator", message_type |-> ty,
      correlation_id |-> None, task |-> NoTask] :
        ty \in InboundTypes \ {"task_assignment"}}

\* Every message the worker may be sent in one run.
AllInbound == UNION {InboundMessages(id) : id \in 1..MaxInbound}

\* What _execute_task_impl of a subclass may do: raise, or return a result.
ImplOutcomes(t) ==
    {[kind |-> "raise", text |-> ImplErrorText, result |-> NoResult],
     [kind |-> "result", text |-> NoneText,
      result |-> Success([task_id |-> t, agent_id |-> WorkerId])],
     [kind |-> "result", text |-> NoneText, result |-> Failure(<<"e1">>)],
     [kind |-> "result", text |-> NoneText, result |-> Failure(<<"e1", "e2">>)]}

\* Every outcome of _execute_task_impl for the tasks in use.
AllOutcomes == UNION {ImplOutcomes(t) : t \in WorkerTaskIds}

NotRun == [kind |-> "notrun", text |-> NoneText, result |-> NoResult]

NoResponse ==
    [agent_id |-> None, task_id |-> NoTask, success |-> FALSE,
     result |-> EmptyOutput, error_message |-> NoneText]

WorkerOff ==
    /\ w_status = IDLE
    /\ w_current_task = NoTask
    /\ w_pc = "off"
    /\ w_msg = NoMsg
    /\ w_outcome = NotRun
    /\ w_response = NoResponse
    /\ w_error = NoneText
    /\ w_sends = <<>>
    /\ w_failed = FALSE
    /\ w_handled = 0
    /\ w_escaped = 0
    /\ w_starts = 0
    /\ w_stopped = FALSE
    /\ hb_live = {}
    /\ hb_task = 0
    /\ hb_count = 0

\* --------------------------------------------------- message bus: data
\* Messages the listening loop receives in one run.
MaxBusMsgs == 2
\* Most subscribe() calls in one run.
MaxSubs == 2
\* Most receivers redis reports for one publish.
MaxReceivers == 2
\* publish() calls in one run.
MaxPublishes == 3

Channels == {"agent.a1", "broadcast.coordination"}
Handlers == {"h1", "h2"}

NoBusMsg == [id |-> 0, channel |-> None, decodable |-> FALSE]

\* The value of pub_last before any publish() call.
NoPublish ==
    [called |-> FALSE, channel |-> None, returned |-> FALSE, raised |-> FALSE, attempts |-> 0,
     unreachable |-> FALSE, failed |-> FALSE, receivers |-> 0]

BusOff ==
    /\ bus_client = FALSE
    /\ pub_last = NoPublish
    /\ pub_calls = 0
    /\ bus_wire = <<>>
    /\ subscribers = [c \in Channels |-> <<>>]
    /\ bus_loop = "off"
    /\ bus_listened = {}
    /\ bus_inbox = <<>>
    /\ bus_received = 0
    /\ bus_cur = NoBusMsg
    /\ bus_i = 0
    /\ bus_log = <<>>

\* --------------------------------------------------- PRP processor: data
\* Longest implementation_steps list of a PRP.
MaxPrpSteps == 3

\* Texts are sequences of characters, so that lower() and the substring
\* test of validate_prp are computed rather than assumed.
UpperLetters ==
    <<"A", "B", "C", "D", "E", "F", "G", "H", "I", "J", "K", "L", "M",
      "N", "O", "P", "Q", "R", "S", "T", "U", "V", "W", "X", "Y", "Z">>
LowerLetters ==
    <<"a", "b", "c", "d", "e", "f", "g", "h", "i", "j", "k", "l", "m",
      "n", "o", "p", "q", "r", "s", "t", "u", "v", "w", "x", "y", "z">>

\* str.lower(), one character.
LowerChar(c) ==
    IF \E i \in DOMAIN UpperLetters : UpperLetters[i] = c
    THEN LowerLetters[CHOOSE i \in DOMAIN UpperLetters : UpperLetters[i] = c]
    ELSE c

\* str.lower().
LowerText(text) == [i \in DOMAIN text |-> LowerChar(text[i])]

\* `keyword in text`: keyword is a substring of text.
Contains(text, keyword) ==
    \E i \in 0..(Len(text) - Len(keyword)) :
        SubSeq(text, i + 1, i + Len(keyword)) = keyword

\* prp_engine.py line 59.
VagueKeywords ==
    {<<"s", "o", "m", "e", "h", "o", "w">>,
     <<"m", "a", "y", "b", "e">>,
     <<"p", "o", "s", "s", "i", "b", "l", "y">>,
     <<"p", "e", "r", "h", "a", "p", "s">>}

\* The step texts PRPs are built from: "Add api", "run tests",
\* "Maybe cache", "fix SOMEHOW".
StepTexts ==
    {<<"A", "d", "d", " ", "a", "p", "i">>,
     <<"r", "u", "n", " ", "t", "e", "s", "t", "s">>,
     <<"M", "a", "y", "b", "e", " ", "c", "a", "c", "h", "e">>,
     <<"f", "i", "x", " ", "S", "O", "M", "E", "H", "O", "W">>}

EmptyText == <<>>
GoalTexts == {EmptyText, <<"g", "o", "a", "l">>}
JustificationTexts == {EmptyText, <<"w", "h", "y">>}
CriteriaLists == {<<>>, <<<<"o", "k">>>>}

\* AgentPRP, models.py 149-159, the fields validate_prp reads.
PrpInputs ==
    [goal : GoalTexts,
     justification : JustificationTexts,
     implementation_steps :
         UNION {[1..n -> StepTexts] : n \in 0..MaxPrpSteps},
     validation_criteria : CriteriaLists]

NoPrp ==
    [goal |-> EmptyText, justification |-> EmptyText,
     implementation_steps |-> <<>>, validation_criteria |-> <<>>]

NoValidation == [is_valid |-> FALSE, errors |-> <<>>]

PrpOff ==
    /\ pe_prp = NoPrp
    /\ pe_pc = "off"
    /\ pe_validation = NoValidation
    /\ pe_result = NoResult
    /\ pe_invoked = 0

\* ------------------------------------------------ planning functions: data
\* Longest implementation_steps of a PRP handed to _decompose_prp_to_tasks.
MaxPlanSteps == 4
\* Longest task list handed to _sort_tasks_by_priority and
\* _create_task_batches directly.
MaxListLen == 3

\* Step texts: "implement and test the parser" (keywords of two families),
\* "deploy it", and a text without any keyword.
PlanStepPool == {{"coding", "testing"}, {"deployment"}, {}}

Priorities == {"critical", "high", "medium", "low"}
PlanTaskTypes == {"coding", "validation"}

\* The task lists of n tasks; a task's id is its position in the list.
TaskListsOfLen(n) ==
    {[i \in 1..n |->
         [id |-> i, description |-> {}, priority |-> f[i][1],
          task_type |-> f[i][2], dependencies |-> {}, depends_on |-> {}]] :
     f \in [1..n -> Priorities \X PlanTaskTypes]}

PlanTaskLists == UNION {TaskListsOfLen(n) : n \in 0..MaxListLen}

RemoteOff ==
    /\ wk_inbox = {}
    /\ wk_finished = {}
    /\ completed_in_wait = {}

PlanOff ==
    /\ pl_pc = "off"
    /\ pl_steps = <<>>
    /\ pl_in = <<>>
    /\ pl_done = {}
    /\ pl_sorted = <<>>
    /\ pl_batches = <<>>

\* ------------------------------------------------ dependency batching
DagIds == 1..MaxDagTasks

DagTasks == [i \in 1..dag_n |-> i]

\* The dependency relation has no cycle: every non-empty set of tasks holds
\* one whose dependencies all lie outside the set.
IsDag(n, deps) ==
    \A S \in SUBSET (1..n) :
        S # {} => \E t \in S : deps[t] \cap S = {}

\* all(dep in completed_tasks for dep in task_dependencies[task_id]) was
\* replaced by any(...).
ReadyAnyDep(t) ==
    /\ t \notin completed_tasks
    /\ (task_dependencies[t] = {} \/ task_dependencies[t] \cap completed_tasks # {})

\* The test of lines 208-213 without `task_id not in completed_tasks`.
IsReadyAgain(t) ==
    \A dep \in task_dependencies[t] : dep \in completed_tasks

\* Lines 208-213: the test that puts a task in ready_tasks.
IsReady(t) ==
    /\ t \notin completed_tasks
    /\ \A dep \in task_dependencies[t] : dep \in completed_tasks

ReadySet == {t \in 1..dag_n : IsReady(t)}

DagOff ==
    /\ dag_n = 0
    /\ task_dependencies = [t \in DagIds |-> {}]
    /\ completed_tasks = {}
    /\ ready_tasks = <<>>
    /\ dag_pc = "off"
    /\ dag_sent = {}
    /\ dag_finished = {}
    /\ dag_errors = {}
    /\ dag_dispatched = [t \in DagIds |-> 0]

\* planning_result: a list of 1..MaxDagTasks tasks with distinct ids whose
\* dependencies name tasks of the list other than the task itself.
InitDag ==
    /\ dag_n \in 1..MaxDagTasks
    /\ task_dependencies \in [DagIds -> SUBSET DagIds]
    /\ \A t \in DagIds :
          /\ t \notin task_dependencies[t]
          /\ task_dependencies[t] \subseteq 1..dag_n
          /\ t > dag_n => task_dependencies[t] = {}
    /\ completed_tasks = {}
    /\ ready_tasks = <<>>
    /\ dag_pc = "loop"
    /\ dag_sent = {}
    /\ dag_finished = {}
    /\ dag_errors = {}
    /\ dag_dispatched = [t \in DagIds |-> 0]
    /\ CoordOff
    /\ WorkerOff
    /\ BusOff
    /\ PrpOff
    /\ PlanOff
    /\ RemoteOff

\* Lines 205-217: the loop test, the scan for ready tasks and the call of
\* _execute_tasks_parallel when there are some.
DagFindReady ==
    /\ dag_pc = "loop"
    /\ Cardinality(completed_tasks) < dag_n
    /\ ready_tasks' = SeqFilter(DagTasks, ReadySet)
    /\ dag_pc' = IF ReadySet # {} THEN "exec" ELSE "sleep"
    /\ dag_sent' = {}
    /\ dag_finished' = {}
    /\ UNCHANGED <<notDagVars, dag_n, task_dependencies, completed_tasks, dag_errors,
                   dag_dispatched>>

\* Lines 242-264: execute_single_task up to its send_task; gather starts the
\* coroutines in list order; send_task returns or raises (caught, logged).
DagSendTask(t, raised) ==
    /\ dag_pc = "exec"
    /\ \E i \in 1..Len(ready_tasks) :
          /\ ready_tasks[i] = t
          /\ t \notin dag_sent
          /\ \A j \in 1..(i - 1) : ready_tasks[j] \in dag_sent
    /\ dag_sent' = dag_sent \cup {t}
    /\ dag_dispatched' = [dag_dispatched EXCEPT ![t] = @ + 1]
    /\ dag_errors' = IF raised THEN dag_errors \cup {t} ELSE dag_errors
    /\ dag_finished' = IF raised THEN dag_finished \cup {t} ELSE dag_finished
    /\ UNCHANGED <<notDagVars, dag_n, task_dependencies, completed_tasks, ready_tasks, dag_pc>>

\* Line 261: the simulated execution time of one task elapses.
DagTaskDone(t) ==
    /\ dag_pc = "exec"
    /\ t \in dag_sent
    /\ t \notin dag_finished
    /\ dag_finished' = dag_finished \cup {t}
    /\ UNCHANGED <<notDagVars, dag_n, task_dependencies, completed_tasks, ready_tasks, dag_pc,
                   dag_sent, dag_errors, dag_dispatched>>

\* Lines 267, 219-222: gather returns once every coroutine did; the whole
\* ready set is marked completed.
DagMarkCompleted ==
    /\ dag_pc = "exec"
    /\ dag_finished = SeqToSet(ready_tasks)
    /\ completed_tasks' = completed_tasks \cup SeqToSet(ready_tasks)
    /\ dag_pc' = "sleep"
    /\ UNCHANGED <<notDagVars, dag_n, task_dependencies, ready_tasks, dag_sent, dag_finished,
                   dag_errors, dag_dispatched>>

\* Line 225: the delay at the end of an iteration.
DagSleep ==
    /\ dag_pc = "sleep"
    /\ dag_pc' = "loop"
    /\ UNCHANGED <<notDagVars, dag_n, task_dependencies, completed_tasks, ready_tasks,
                   dag_sent, dag_finished, dag_errors, dag_dispatched>>

\* Lines 205, 227: the loop ends when every task is completed.
DagAllCompleted ==
    /\ dag_pc = "loop"
    /\ ~(Cardinality(completed_tasks) < dag_n)
    /\ dag_pc' = "done"
    /\ UNCHANGED <<notDagVars, dag_n, task_dependencies, completed_tasks, ready_tasks,
                   dag_sent, dag_finished, dag_errors, dag_dispatched>>

NextDag ==
    \/ DagFindReady
    \/ \E t \in DagIds, raised \in BOOLEAN : DagSendTask(t, raised)
    \/ \E t \in DagIds : DagTaskDone(t)
    \/ DagMarkCompleted
    \/ DagSleep
    \/ DagAllCompleted

SpecDag == InitDag /\ [][NextDag]_vars

\* ---------------------------------------------------------------- C1
\* C1: when the dependencies form a DAG over the list's own ids, every task
\* of the ready set handed to _execute_tasks_parallel, and every task ever
\* dispatched, has all its dependencies in completed_tasks, and a completed
\* task is one whose ready set finished executing (it was dispatched and is
\* not part of the set still executing).
C1_ReadyOnlyAfterDependencies ==
    IsDag(dag_n, task_dependencies) =>
        /\ \A t \in SeqToSet(ready_tasks) :
              dag_pc = "exec" =>
                  /\ task_dependencies[t] \subseteq completed_tasks
                  /\ \A d \in task_dependencies[t] :
                        dag_dispatched[d] > 0 /\ d \notin SeqToSet(ready_tasks)
        /\ \A t \in 1..dag_n :
              dag_dispatched[t] > 0 =>
                  task_dependencies[t] \subseteq completed_tasks

\* A task with a dependency is executing in a ready set of its own.
C1_Witness ==
    /\ IsDag(dag_n, task_dependencies)
    /\ dag_pc = "exec"
    /\ \E t \in dag_sent : task_dependencies[t] # {}

\* ------------------------------------------- agent coordinator: registry
InRegistry(reg, a) == \E i \in 1..Len(reg) : reg[i].id = a

RegGet(reg, a) == reg[CHOOSE i \in 1..Len(reg) : reg[i].id = a]

\* available_agents[info.id] = info: a known key keeps its place in the
\* dict, a new key goes last.
RegPut(reg, info) ==
    IF InRegistry(reg, info.id)
    THEN [i \in 1..Len(reg) |-> IF reg[i].id = info.id THEN info ELSE reg[i]]
    ELSE Append(reg, info)

\* Lines 355-366 without the fallback scan.
SuitableAgentsNoFallback(reg, task) ==
    LET preferred_roles == RolePreferences(task.task_type)
        Preferred(info) ==
            /\ info.status = IDLE
            /\ (preferred_roles = {} \/ Lower(info.role) \in preferred_roles)
    IN SelectSeq(reg, Preferred)

\* Lines 355-366 with the role test dropped from the first scan.
SuitableAgentsAnyRole(reg, task) ==
    LET Idle(info) == info.status = IDLE
    IN SelectSeq(reg, Idle)

\* Lines 349-366: the IDLE agents of a preferred role, or, when there are
\* none, every IDLE agent, in registry order.
SuitableAgents(reg, task) ==
    LET preferred_roles == RolePreferences(task.task_type)
        Preferred(info) ==
            /\ info.status = IDLE
            /\ (preferred_roles = {} \/ Lower(info.role) \in preferred_roles)
        Idle(info) == info.status = IDLE
        first == SelectSeq(reg, Preferred)
    IN IF first # <<>> THEN first ELSE SelectSeq(reg, Idle)

\* Lines 368-373: None, or the first suitable agent.
AssignReturn(reg, task) ==
    IF SuitableAgents(reg, task) = <<>> THEN None
    ELSE SuitableAgents(reg, task)[1].id

\* Lines 376-377: the chosen agent becomes BUSY with the task.
MarkBusy(reg, a, tid) ==
    [i \in 1..Len(reg) |->
        IF reg[i].id = a
        THEN [reg[i] EXCEPT !.status = BUSY, !.current_task = tid]
        ELSE reg[i]]

\* Lines 112-119 and 340-381: _execute_task_impl up to its first await:
\* _assign_task_to_agent runs without suspending; without an agent the
\* coroutine returns a failure, else it goes on to send the assignment.
RunFirstStep(t) ==
    LET a == AssignReturn(available_agents, TaskOf(t))
    IN /\ co_runs' = [co_runs EXCEPT ![t] = @ + 1]
       /\ co_elapsed' = [co_elapsed EXCEPT ![t] = 0]
       /\ IF a = None
          THEN /\ co_pc' = [co_pc EXCEPT ![t] = "done"]
               /\ co_result' = [co_result EXCEPT ![t] = Failure(<<NoAgentError(t)>>)]
               /\ UNCHANGED <<available_agents, task_assignments>>
          ELSE /\ co_pc' = [co_pc EXCEPT ![t] = "send"]
               /\ co_result' = [co_result EXCEPT ![t] = NoResult]
               /\ available_agents' = MarkBusy(available_agents, a, t)
               /\ task_assignments' = [task_assignments EXCEPT ![t] = a]

\* Lines 327-328: the coroutines gather started run their first step one
\* after the other, in batch order, before anything else does.
BatchCoroutineStart(t) ==
    /\ runq # <<>>
    /\ t = Head(runq)
    /\ runq' = Tail(runq)
    /\ RunFirstStep(t)
    /\ UNCHANGED <<notCoordVars, prp_steps, wf_pc, batch_idx, results, msgs_handled>>

\* base.py 293-308: a TASK_ASSIGNMENT sent to the coordinator itself runs
\* its _execute_task_impl beside the workflow.
DirectExecute ==
    /\ runq = <<>>
    /\ wf_pc # "off"
    /\ co_runs[ExtraTaskId] = 0
    /\ RunFirstStep(ExtraTaskId)
    /\ UNCHANGED <<notCoordVars, prp_steps, wf_pc, batch_idx, results, runq, msgs_handled>>

\* Lines 396-402: the TASK_ASSIGNMENT message for task t.
AssignmentMessage(a, t) ==
    [message_type |-> "task_assignment", recipient_id |-> a, task |-> t]

\* Lines 396-407, 424: send_to_agent returns, and the wait starts, or it
\* raises, and line 126 turns the exception into a failure.
DelegateSend(t, raised) ==
    /\ runq = <<>>
    /\ co_pc[t] = "send"
    /\ IF raised
       THEN /\ co_pc' = [co_pc EXCEPT ![t] = "done"]
            /\ co_result' = [co_result EXCEPT ![t] = Failure(<<RaisedError(t)>>)]
       ELSE /\ co_pc' = [co_pc EXCEPT ![t] = "poll"]
            /\ UNCHANGED co_result
    /\ wk_inbox' = IF raised THEN wk_inbox
                   ELSE wk_inbox \cup {AssignmentMessage(task_assignments[t], t)}
    /\ UNCHANGED <<dagVars, workerVars, busVars, prpVars, planVars, wk_finished,
                   completed_in_wait,
                   prp_steps, wf_pc, batch_idx, results, runq, co_elapsed,
                   co_runs, available_agents, task_assignments, msgs_handled>>

\* Line 426 with "<" written "<=".
WaitLoopContinuesLate(elapsed) == elapsed <= WaitTimeout

\* Line 426: the loop test of _wait_for_task_result.
WaitLoopContinues(elapsed) == elapsed < WaitTimeout

\* Lines 430-433 with the status test dropped.
TaskLooksCompletedAnyStatus(t) ==
    /\ task_assignments[t] # None
    /\ InRegistry(available_agents, task_assignments[t])

\* Lines 430-433: the assignment is on record, its agent is in the registry
\* and the agent's status is IDLE.
TaskLooksCompleted(t) ==
    /\ task_assignments[t] # None
    /\ InRegistry(available_agents, task_assignments[t])
    /\ RegGet(available_agents, task_assignments[t]).status = IDLE

\* Lines 426-441: one turn of the loop: sleep a second, then look.
WaitPoll(t) ==
    /\ runq = <<>>
    /\ co_pc[t] = "poll"
    /\ WaitLoopContinues(co_elapsed[t])
    /\ co_elapsed' = [co_elapsed EXCEPT ![t] = @ + 1]
    /\ IF TaskLooksCompleted(t)
       THEN /\ co_pc' = [co_pc EXCEPT ![t] = "done"]
            /\ co_result' = [co_result EXCEPT ![t] =
                   Success([task_id |-> t, agent_id |-> task_assignments[t]])]
       ELSE UNCHANGED <<co_pc, co_result>>
    /\ UNCHANGED <<notCoordVars, prp_steps, wf_pc, batch_idx, results, runq, co_runs,
                   available_agents, task_assignments, msgs_handled>>

\* Lines 426, 444 followed by a release of the agent and the assignment.
WaitTimedOutReleases(t) ==
    /\ runq = <<>>
    /\ co_pc[t] = "poll"
    /\ ~WaitLoopContinues(co_elapsed[t])
    /\ co_pc' = [co_pc EXCEPT ![t] = "done"]
    /\ co_result' = [co_result EXCEPT ![t] = Failure(<<TimedOutError(t)>>)]
    /\ task_assignments' = [task_assignments EXCEPT ![t] = None]
    /\ UNCHANGED <<notCoordVars, prp_steps, wf_pc, batch_idx, results, runq, co_elapsed,
                   co_runs, available_agents, msgs_handled>>

\* Lines 426, 444: the loop test fails and the wait returns the failure.
WaitTimedOut(t) ==
    /\ runq = <<>>
    /\ co_pc[t] = "poll"
    /\ ~WaitLoopContinues(co_elapsed[t])
    /\ co_pc' = [co_pc EXCEPT ![t] = "done"]
    /\ co_result' = [co_result EXCEPT ![t] = Failure(<<TimedOutError(t)>>)]
    /\ UNCHANGED <<notCoordVars, prp_steps, wf_pc, batch_idx, results, runq, co_elapsed,
                   co_runs, available_agents, task_assignments, msgs_handled>>

\* ------------------------------------------- agent coordinator: workflow
\* Lines 321-338 with the results in reverse order.
BatchResultsReversed(k) ==
    [i \in 1..Len(Batches[k]) |->
        co_result[BatchIds(k)[Len(Batches[k]) + 1 - i]]]

\* Lines 321-338: what _execute_task_batch returns for batch k once its
\* coroutines returned: one result per task, in batch order.
BatchResults(k) ==
    [i \in 1..Len(Batches[k]) |-> co_result[BatchIds(k)[i]]]

\* Lines 246-249 with the priority test dropped.
CriticalFailureAnyPriority(batch_results, task_batch) ==
    \E i \in 1..Len(batch_results) :
        /\ i <= Len(task_batch)
        /\ ~batch_results[i].is_successful

\* Lines 246-249: some task of the batch failed and is CRITICAL.
CriticalFailure(batch_results, task_batch) ==
    \E i \in 1..Len(batch_results) :
        /\ i <= Len(task_batch)
        /\ ~batch_results[i].is_successful
        /\ task_batch[i].priority = "critical"

\* The coroutines of batch k, as gather (or the direct call) starts them.
Launch(k) ==
    /\ batch_idx' = k
    /\ runq' = BatchIds(k)
    /\ co_pc' = [t \in TaskIds |->
                    IF t \in SeqToSet(BatchIds(k)) THEN "new" ELSE co_pc[t]]

\* Lines 235-242: decomposition, sort, batches, and the first batch starts.
WorkflowStart ==
    /\ wf_pc = "new"
    /\ runq = <<>>
    /\ IF Batches = <<>>
       THEN /\ wf_pc' = "done"
            /\ UNCHANGED <<batch_idx, runq, co_pc>>
       ELSE /\ wf_pc' = "running"
            /\ Launch(1)
    /\ UNCHANGED <<notCoordVars, prp_steps, results, co_result, co_elapsed, co_runs,
                   available_agents, task_assignments, msgs_handled>>

\* Lines 242-253: the batch returned; its results are appended; after a
\* failed CRITICAL task, or after the last batch, the workflow returns, else
\* the next batch starts.
WorkflowBatchDone ==
    /\ wf_pc = "running"
    /\ runq = <<>>
    /\ \A t \in SeqToSet(BatchIds(batch_idx)) : co_pc[t] = "done"
    /\ results' = results \o BatchResults(batch_idx)
    /\ IF \/ CriticalFailure(BatchResults(batch_idx), Batches[batch_idx])
          \/ batch_idx = Len(Batches)
       THEN /\ wf_pc' = "done"
            /\ UNCHANGED <<batch_idx, runq, co_pc>>
       ELSE /\ wf_pc' = "running"
            /\ Launch(batch_idx + 1)
    /\ UNCHANGED <<notCoordVars, prp_steps, co_result, co_elapsed, co_runs,
                   available_agents, task_assignments, msgs_handled>>

\* ------------------------------------------- agent coordinator: messages
\* The statuses a worker's code gives its own info.
WorkerStatuses == {IDLE, BUSY, OFFLINE}

\* The tasks a worker may report as its current one: none, or one the
\* coordinator sent it.
ReportableTasks(a, st) ==
    IF st = BUSY
    THEN {NoTask} \cup {t \in TaskIds :
                        task_assignments[t] = a /\ co_pc[t] \in {"poll", "done"}}
    ELSE {NoTask}

\* Lines 455-462, base.py 352-360: a status_update that worker a broadcast
\* when its info had status st and current task ct replaces a's record.
HandleStatusUpdate(a, st, ct) ==
    /\ runq = <<>>
    /\ wf_pc # "off"
    /\ msgs_handled < MaxMsgs
    /\ ct \in ReportableTasks(a, st)
    /\ msgs_handled' = msgs_handled + 1
    /\ available_agents' =
           RegPut(available_agents,
                  AgentInfoFromDict(AgentInfoToDict(
                      [id |-> a, role |-> RoleOf(a), status |-> st,
                       current_task |-> ct])))
    /\ UNCHANGED <<notCoordVars, prp_steps, wf_pc, batch_idx, results, runq, co_pc,
                   co_result, co_elapsed, co_runs, task_assignments>>

\* Lines 464-473: a task_completed message naming task tid and agent a.
HandleTaskCompleted(tid, a) ==
    /\ runq = <<>>
    /\ wf_pc # "off"
    /\ msgs_handled < MaxMsgs
    /\ msgs_handled' = msgs_handled + 1
    /\ task_assignments' = [task_assignments EXCEPT ![tid] = None]
    /\ available_agents' =
           [i \in 1..Len(available_agents) |->
               IF available_agents[i].id = a
               THEN [available_agents[i] EXCEPT !.status = IDLE,
                                                !.current_task = NoTask]
               ELSE available_agents[i]]
    /\ completed_in_wait' =
           IF /\ co_pc[tid] = "poll"
              /\ WaitLoopContinues(co_elapsed[tid])
              /\ task_assignments[tid] = a
           THEN completed_in_wait \cup {tid}
           ELSE completed_in_wait
    /\ UNCHANGED <<dagVars, workerVars, busVars, prpVars, planVars, wk_inbox,
                   wk_finished, prp_steps, wf_pc, batch_idx, results, runq, co_pc,
                   co_result, co_elapsed, co_runs>>

\* A coordinator with an empty registry about to execute the tasks of a PRP
\* of 0..MaxSteps implementation steps.
InitCoord ==
    /\ DagOff
    /\ WorkerOff
    /\ BusOff
    /\ PrpOff
    /\ PlanOff
    /\ RemoteOff
    /\ prp_steps \in UNION {[1..n -> CoordStepPool] : n \in 0..MaxSteps}
    /\ wf_pc = "new"
    /\ CoordFresh

NextCoord ==
    \/ WorkflowStart
    \/ \E t \in TaskIds : BatchCoroutineStart(t)
    \/ \E t \in TaskIds, raised \in BOOLEAN : DelegateSend(t, raised)
    \/ \E t \in TaskIds : WaitPoll(t)
    \/ \E t \in TaskIds : WaitTimedOut(t)
    \/ WorkflowBatchDone
    \/ \E a \in Agents, st \in WorkerStatuses, ct \in TaskIds \cup {NoTask} :
          HandleStatusUpdate(a, st, ct)
    \/ \E tid \in TaskIds, a \in Agents : HandleTaskCompleted(tid, a)

SpecCoord == InitCoord /\ [][NextCoord]_vars

\* The event loop runs every coroutine that is ready: the first steps of a
\* started batch, and a waiter whose asyncio.sleep(1) is over.
CoordFairness ==
    /\ WF_vars(\E t \in TaskIds : BatchCoroutineStart(t))
    /\ \A t \in TaskIds : WF_vars(WaitPoll(t) \/ WaitTimedOut(t))

SpecCoordFair == SpecCoord /\ CoordFairness

\* The same coordinator when a task sent to it directly runs beside the
\* workflow.
NextCoordDirect ==
    \/ NextCoord
    \/ DirectExecute

SpecCoordDirect == InitCoord /\ [][NextCoordDirect]_vars

\* ---------------------------------------------------------------- C2
\* C2: in the PRP workflow the validation task is assigned or delegated
\* only when every step task of the PRP has finished executing.
C2_ValidationAfterEverySteps ==
    (wf_pc # "off" /\ co_pc[ValidationId] \in {"send", "poll"}) =>
        \A s \in StepIds : co_runs[s] > 0 /\ co_pc[s] = "done"

\* ---------------------------------------------------------------- C3
\* The tasks assigned to agent a whose _wait_for_task_result did not return.
WaitingOn(a) ==
    {t \in TaskIds : task_assignments[t] = a /\ co_pc[t] \in {"send", "poll"}}

\* C3: every agent whose registry status is BUSY has at most one assigned
\* task whose wait has not returned.
C3_OneWaitingTaskPerBusyAgent ==
    \A i \in 1..Len(available_agents) :
        available_agents[i].status = BUSY =>
            Cardinality(WaitingOn(available_agents[i].id)) <= 1

\* ---------------------------------------------------------------- C4
RECURSIVE Flatten(_)
Flatten(batches) ==
    IF batches = <<>> THEN <<>> ELSE Head(batches) \o Flatten(Tail(batches))

\* C4: the batches are non-empty, hold at most 3 tasks and concatenate to
\* the sorted task list, each task id being in exactly one batch; no
\* coroutine is started twice, the tasks of later batches have not started
\* and those of earlier batches have returned.
C4_BatchesPartitionAndRunInTurn ==
    wf_pc # "off" =>
        LET b == Batches
            ids(k) == {b[k][i].id : i \in 1..Len(b[k])}
        IN  /\ \A k \in 1..Len(b) : Len(b[k]) >= 1 /\ Len(b[k]) <= 3
            /\ Flatten(b) = SortedTasks
            /\ \A t \in StepIds \cup {ValidationId} :
                  Cardinality({k \in 1..Len(b) : t \in ids(k)}) = 1
            /\ \A t \in TaskIds : co_runs[t] <= 1
            /\ \A k \in 1..Len(b) : \A t \in ids(k) :
                  /\ k > batch_idx => co_runs[t] = 0 /\ co_pc[t] = "new"
                  /\ k < batch_idx => co_runs[t] = 1 /\ co_pc[t] = "done"

\* The second batch is executing.
C4_Witness ==
    /\ wf_pc = "running"
    /\ batch_idx = 2
    /\ \E t \in SeqToSet(BatchIds(2)) : co_pc[t] = "poll"

\* ---------------------------------------------------------------- C5
IdleAt(reg) == {i \in 1..Len(reg) : reg[i].status = IDLE}
PreferredIdleAt(reg, t) ==
    {i \in IdleAt(reg) : Lower(reg[i].role) \in RolePreferences(TaskOf(t).task_type)}

\* C5: a call of _assign_task_to_agent that finds no IDLE agent of a
\* preferred role but some IDLE agent returns one of the IDLE agents; one
\* that finds no IDLE agent returns None, leaves task_assignments and every
\* agent record as they were, and the task fails for want of an agent.
C5_FallbackOrFailure ==
    [][\A t \in TaskIds :
          co_runs'[t] # co_runs[t] =>
              /\ (PreferredIdleAt(available_agents, t) = {}
                  /\ IdleAt(available_agents) # {}) =>
                     /\ co_pc'[t] = "send"
                     /\ \E i \in IdleAt(available_agents) :
                           task_assignments'[t] = available_agents[i].id
              /\ IdleAt(available_agents) = {} =>
                     /\ co_pc'[t] = "done"
                     /\ co_result'[t] = Failure(<<NoAgentError(t)>>)
                     /\ task_assignments' = task_assignments
                     /\ available_agents' = available_agents
      ]_vars

\* A coding task went to an agent that is no coder while another task of
\* the batch found no agent.
C5_Witness ==
    /\ \E t \in StepIds :
          /\ co_pc[t] \in {"send", "poll"}
          /\ task_assignments[t] # None
          /\ Lower(RoleOf(task_assignments[t])) \notin
                 RolePreferences(TaskOf(t).task_type)
    /\ \E t \in StepIds :
          co_pc[t] = "done" /\ co_result[t] = Failure(<<NoAgentError(t)>>)

\* ---------------------------------------------------------------- C6
\* C6: when _assign_task_to_agent returns an agent, the agent was IDLE, is
\* now BUSY with current_task the task id, and task_assignments maps the
\* task to it; when an IDLE agent of a preferred role existed, the agent is
\* the first such agent in registry order.
C6_AssignedAgentWasIdleIsBusy ==
    [][\A t \in TaskIds :
          (co_runs'[t] # co_runs[t] /\ co_pc'[t] = "send") =>
              LET a == task_assignments'[t]
              IN /\ a # None
                 /\ InRegistry(available_agents, a)
                 /\ RegGet(available_agents, a).status = IDLE
                 /\ RegGet(available_agents', a).status = BUSY
                 /\ RegGet(available_agents', a).current_task = t
                 /\ PreferredIdleAt(available_agents, t) # {} =>
                       \E i \in PreferredIdleAt(available_agents, t) :
                           /\ available_agents[i].id = a
                           /\ \A j \in PreferredIdleAt(available_agents, t) : i <= j
      ]_vars

\* A coding task is with the coder although an IDLE agent that is no coder
\* comes first in the registry.
C6_Witness ==
    \E t \in StepIds :
        /\ co_pc[t] = "send"
        /\ Len(available_agents) = 2
        /\ task_assignments[t] = available_agents[2].id
        /\ available_agents[2].status = BUSY
        /\ available_agents[2].current_task = t
        /\ Lower(available_agents[2].role) \in RolePreferences(TaskOf(t).task_type)
        /\ available_agents[1].status = IDLE

\* ---------------------------------------------------------------- C7
\* The record the coordinator holds after a status_update that worker a
\* broadcast while its status was IDLE and it had no task.
IdleBroadcastRecord(a) ==
    AgentInfoFromDict(AgentInfoToDict(
        [id |-> a, role |-> RoleOf(a), status |-> IDLE, current_task |-> NoTask]))

\* C7: a worker whose registry record is the one received from its IDLE
\* status broadcast is among the agents _assign_task_to_agent may return
\* for a task without preferred roles, and a wait on a task assigned to it
\* sees the task as completed.
C7_BroadcastIdleWorkerIsUsable ==
    \A i \in 1..Len(available_agents) :
        available_agents[i] = IdleBroadcastRecord(available_agents[i].id) =>
            /\ \E j \in 1..Len(SuitableAgents(available_agents, TaskOf(ExtraTaskId))) :
                  SuitableAgents(available_agents, TaskOf(ExtraTaskId))[j].id =
                      available_agents[i].id
            /\ \A t \in TaskIds :
                  task_assignments[t] = available_agents[i].id => TaskLooksCompleted(t)

\* ---------------------------------------------------------------- C8
\* C8: a wait sleeps at most WaitTimeout seconds; when it returns without
\* its check having seen the assigned agent IDLE, it returns the failure
\* "Task <id> timed out", after exactly WaitTimeout seconds; and every wait
\* that started returns.
C8_WaitReturnsTimedOutWithinBudget ==
    /\ [][\A t \in TaskIds :
             co_pc[t] = "poll" =>
                 /\ co_elapsed[t] <= WaitTimeout
                 /\ co_elapsed'[t] <= WaitTimeout
                 /\ (co_pc'[t] = "done" /\ ~TaskLooksCompleted(t)) =>
                        /\ co_result'[t] = Failure(<<TimedOutError(t)>>)
                        /\ ~co_result'[t].is_successful
                        /\ co_elapsed[t] = WaitTimeout
         ]_vars
    /\ \A t \in TaskIds : (co_pc[t] = "poll") ~> (co_pc[t] = "done")

\* A wait returned the timed-out failure although its agent was never IDLE.
C8_Witness ==
    \E t \in TaskIds :
        /\ co_pc[t] = "done"
        /\ co_elapsed[t] = WaitTimeout
        /\ co_result[t] = Failure(<<TimedOutError(t)>>)

\* ---------------------------------------------------------------- C9
\* A CRITICAL task of batch k returned a failure.
CriticalFailed(k) ==
    \E i \in 1..Len(Batches[k]) :
        /\ Batches[k][i].priority = "critical"
        /\ co_pc[Batches[k][i].id] = "done"
        /\ ~co_result[Batches[k][i].id].is_successful

RECURSIVE ResultsUpTo(_)
\* The results of the batches 1..k, in order.
ResultsUpTo(k) ==
    IF k = 0 THEN <<>>
    ELSE ResultsUpTo(k - 1) \o [i \in 1..Len(Batches[k]) |-> co_result[Batches[k][i].id]]

\* C9: a task of a batch is started only if no CRITICAL task of an earlier
\* batch failed; the workflow returns the results of exactly the batches it
\* executed; and it returns before the last batch only after a CRITICAL
\* task of the batch just executed failed.
C9_CriticalFailureStopsWorkflow ==
    wf_pc # "off" =>
        /\ \A k \in 1..Len(Batches) :
              (\E t \in SeqToSet(BatchIds(k)) : co_runs[t] > 0) =>
                  \A j \in 1..(k - 1) : ~CriticalFailed(j)
        /\ wf_pc = "done" =>
              /\ results = ResultsUpTo(batch_idx)
              /\ batch_idx < Len(Batches) => CriticalFailed(batch_idx)
              /\ \A k \in (batch_idx + 1)..Len(Batches) :
                    \A t \in SeqToSet(BatchIds(k)) : co_runs[t] = 0

\* The second batch runs after a task of the first batch failed.
C9_Witness ==
    /\ wf_pc = "running"
    /\ batch_idx = 2
    /\ \E t \in SeqToSet(BatchIds(1)) : ~co_result[t].is_successful
    /\ \E t \in SeqToSet(BatchIds(2)) : co_runs[t] > 0

\* --------------------------------------------------------------- C10
\* C10: the step in which a batch returns appends one result per task of
\* the batch, in batch order, each being what that task's own coroutine
\* returned and naming that task; and the step in which a send raises gives
\* that task the failure carrying the exception text and leaves the
\* coroutines and results of all other tasks as they were.
C10_OneResultPerTaskInBatchOrder ==
    [][/\ (wf_pc = "running" /\ results' # results) =>
             /\ Len(results') = Len(results) + Len(Batches[batch_idx])
             /\ \A i \in 1..Len(Batches[batch_idx]) :
                   LET t == Batches[batch_idx][i].id
                       r == results'[Len(results) + i]
                   IN /\ r = co_result[t]
                      /\ r.is_successful => r.output.task_id = t
                      /\ ~r.is_successful =>
                             r.errors \in {<<NoAgentError(t)>>, <<RaisedError(t)>>,
                                           <<TimedOutError(t)>>}
       /\ \A t \in TaskIds :
             (co_pc[t] = "send" /\ co_pc'[t] = "done") =>
                 /\ co_result'[t] = Failure(<<RaisedError(t)>>)
                 /\ \A u \in TaskIds \ {t} :
                       co_pc'[u] = co_pc[u] /\ co_result'[u] = co_result[u]
      ]_vars

\* A batch returned a raised failure for one task and a success for another.
C10_Witness ==
    /\ batch_idx >= 1
    /\ Len(results) >= Len(Batches[1])
    /\ \E i, j \in 1..Len(Batches[1]) :
          /\ results[i] = Failure(<<RaisedError(Batches[1][i].id)>>)
          /\ results[j].is_successful
          /\ results[j].output.task_id = Batches[1][j].id

\* ------------------------------------------------ _execute_prp: aggregation
\* Line 77 with all(...) replaced by any(...).
AnySuccessful(rs) == \E i \in 1..Len(rs) : rs[i].is_successful

\* Line 77: all(result.is_successful for result in results).
AllSuccessful(rs) == \A i \in 1..Len(rs) : rs[i].is_successful

RECURSIVE CollectArtifacts(_)
\* Lines 87-88: artifacts.extend(result.artifacts) for every result.
CollectArtifacts(rs) ==
    IF rs = <<>> THEN <<>> ELSE Head(rs).artifacts \o CollectArtifacts(Tail(rs))

RECURSIVE CollectErrors(_)
\* Lines 93-96: errors.extend(result.errors) for every failed result.
CollectErrors(rs) ==
    IF rs = <<>> THEN <<>>
    ELSE IF ~Head(rs).is_successful
         THEN Head(rs).errors \o CollectErrors(Tail(rs))
         ELSE CollectErrors(Tail(rs))

\* Lines 78-84, 87-88: combined_output.
CombinedOutput(tasks, rs) ==
    [tasks_executed |-> Len(tasks),
     successful_tasks |-> Cardinality({i \in 1..Len(rs) : rs[i].is_successful}),
     task_results |-> [i \in 1..Len(rs) |-> rs[i].output],
     artifacts |-> CollectArtifacts(rs)]

\* Lines 69-97: what _execute_prp returns for the tasks and the results of
\* their workflow.
AggregateResults(tasks, rs) ==
    IF tasks = <<>>
    THEN [is_successful |-> FALSE, output |-> EmptyOutput,
          errors |-> <<"No tasks generated from PRP">>, artifacts |-> <<>>]
    ELSE IF AllSuccessful(rs)
         THEN [is_successful |-> TRUE, output |-> CombinedOutput(tasks, rs),
               errors |-> <<>>, artifacts |-> <<>>]
         ELSE [is_successful |-> FALSE, output |-> CombinedOutput(tasks, rs),
               errors |-> CollectErrors(rs), artifacts |-> <<>>]

\* What _execute_prp returns once its workflow returned.
ExecutePrpResult == AggregateResults(Tasks, results)

\* ---------------------------------------------------------------- C11
\* C11: _execute_prp returns success exactly when every decomposed task was
\* executed and every collected result is successful; the errors of a
\* failure are the errors of the failed results, concatenated in order, and
\* the artifacts it reports are the artifacts of all collected results,
\* concatenated in order.
C11_PrpSuccessIsConjunctionOfResults ==
    wf_pc = "done" =>
        LET r == ExecutePrpResult
            failed == {i \in 1..Len(results) : ~results[i].is_successful}
        IN  /\ r.is_successful <=>
                  /\ \A t \in StepIds \cup {ValidationId} :
                        co_runs[t] > 0 /\ co_pc[t] = "done"
                  /\ failed = {}
            /\ ~r.is_successful =>
                  r.errors = Flatten([i \in 1..Len(results) |->
                                 IF i \in failed THEN results[i].errors ELSE <<>>])
            /\ r.output.artifacts =
                  Flatten([i \in 1..Len(results) |-> results[i].artifacts])
            /\ r.artifacts = r.output.artifacts

\* A workflow returned with a failed and a successful result.
C11_Witness ==
    /\ wf_pc = "done"
    /\ ~ExecutePrpResult.is_successful
    /\ Len(ExecutePrpResult.errors) >= 1
    /\ \E i, j \in 1..Len(results) :
          results[i].is_successful /\ ~results[j].is_successful

\* ------------------------------------------------------ worker: actions
RECURSIVE JoinErrors(_)
\* "; ".join(result.errors).
JoinErrors(errors) ==
    IF errors = <<>> THEN <<>>
    ELSE IF Len(errors) = 1 THEN <<errors[1]>>
         ELSE <<errors[1], "; ">> \o JoinErrors(Tail(errors))

\* Lines 248-257: the response built from the implementation's result.
ResponseFromResult(t, result) ==
    [agent_id |-> WorkerId, task_id |-> t, success |-> result.is_successful,
     result |-> result.output,
     error_message |-> IF result.is_successful THEN NoneText
                       ELSE JoinErrors(result.errors)]

\* Lines 264-273 with error_message left at its default.
ResponseFromExceptionSilent(t, text) ==
    [agent_id |-> WorkerId, task_id |-> t, success |-> FALSE,
     result |-> EmptyOutput, error_message |-> NoneText]

\* Lines 264-273: the response built in the except branch.
ResponseFromException(t, text) ==
    [agent_id |-> WorkerId, task_id |-> t, success |-> FALSE,
     result |-> EmptyOutput, error_message |-> text]

\* Lines 311-317: the TASK_RESULT message for the sender.
ResultMessage(original, response) ==
    [kind |-> "task_result", recipient_id |-> original.sender_id,
     original_message_id |-> 0, correlation_id |-> original.correlation_id,
     error |-> response.error_message, delivered |-> FALSE]

\* Lines 371-377 with the correlation_id of the reply left at its default.
ErrorMessageUncorrelated(original, error) ==
    [kind |-> "error", recipient_id |-> original.sender_id,
     original_message_id |-> original.id, correlation_id |-> None,
     error |-> error, delivered |-> FALSE]

\* Lines 371-377: the ERROR message for the sender of the original message.
ErrorMessage(original, error) ==
    [kind |-> "error", recipient_id |-> original.sender_id,
     original_message_id |-> original.id,
     correlation_id |-> original.correlation_id,
     error |-> error, delivered |-> FALSE]

\* message_bus.send_to_agent(recipient, message): the message is delivered,
\* or the call raises and nothing is delivered.
SendToAgent(log, message, raised) ==
    Append(log, [message EXCEPT !.delivered = ~raised])

\* start(): a new heartbeat loop replaces _heartbeat_task, status IDLE.
WorkerStart ==
    /\ w_pc \in {"off", "idle"}
    /\ w_starts < MaxStarts
    /\ w_starts' = w_starts + 1
    /\ hb_live' = hb_live \cup {w_starts + 1}
    /\ hb_task' = w_starts + 1
    /\ w_status' = IDLE
    /\ w_stopped' = FALSE
    /\ w_pc' = "idle"
    /\ UNCHANGED <<notWorkerVars, w_current_task, w_msg, w_outcome, w_response,
                   w_error, w_sends, w_failed, w_handled, w_escaped, hb_count>>

\* stop(): the loop _heartbeat_task refers to is cancelled and awaited,
\* status OFFLINE. The subscriptions of start() stay.
WorkerStop ==
    /\ w_pc \in {"off", "idle"}
    /\ hb_live' = hb_live \ {hb_task}
    /\ w_status' = OFFLINE
    /\ w_stopped' = TRUE
    /\ UNCHANGED <<notWorkerVars, w_current_task, w_pc, w_msg, w_outcome,
                   w_response, w_error, w_sends, w_failed, w_handled, w_escaped,
                   w_starts, hb_task, hb_count>>

\* _heartbeat_loop: one iteration of a running loop; a broadcast that raises
\* ends the loop (lines 396-397).
Heartbeat(l, raised) ==
    /\ l \in hb_live
    /\ hb_count < MaxHeartbeats
    /\ hb_count' = IF raised THEN hb_count ELSE hb_count + 1
    /\ hb_live' = IF raised THEN hb_live \ {l} ELSE hb_live
    /\ UNCHANGED <<notWorkerVars, w_status, w_current_task, w_pc, w_msg,
                   w_outcome, w_response, w_error, w_sends, w_failed, w_handled,
                   w_escaped, w_starts, w_stopped, hb_task>>

\* handle_message up to the first await of a handler that can fail: the
\* dispatch (lines 150-155), _handle_task_assignment's payload test (lines
\* 300-302) and execute_task's entry (lines 238-241).
WorkerReceive(m, raised) ==
    /\ w_pc = "idle"
    /\ w_handled < MaxInbound
    /\ m \in InboundMessages(w_handled + 1)
    /\ w_handled' = w_handled + 1
    /\ w_msg' = m
    /\ w_outcome' = NotRun
    /\ w_sends' = <<>>
    /\ IF m.message_type # "task_assignment"
       THEN /\ ~raised
            /\ w_failed' = FALSE
            /\ w_error' = NoneText
            /\ w_response' = NoResponse
            /\ UNCHANGED <<w_status, w_current_task, w_pc>>
       ELSE IF m.task = NoTask
       THEN /\ ~raised
            /\ w_failed' = TRUE
            /\ w_error' = NoTaskDataText
            /\ w_response' = NoResponse
            /\ w_pc' = "error_inner"
            /\ UNCHANGED <<w_status, w_current_task>>
       ELSE /\ w_current_task' = m.task
            /\ w_status' = BUSY
            /\ w_pc' = IF raised THEN "finally" ELSE "impl"
            /\ w_response' = IF raised
                             THEN ResponseFromException(m.task, BusErrorText)
                             ELSE NoResponse
            /\ w_failed' = FALSE
            /\ w_error' = NoneText
    /\ UNCHANGED <<notWorkerVars, w_escaped, w_starts, w_stopped,
                   hb_live, hb_task, hb_count>>

\* Lines 243-273: _execute_task_impl returns or raises, and the response is
\* built.
WorkerImpl(o) ==
    /\ w_pc = "impl"
    /\ o \in ImplOutcomes(w_msg.task)
    /\ w_outcome' = o
    /\ w_response' = IF o.kind = "raise"
                     THEN ResponseFromException(w_msg.task, o.text)
                     ELSE ResponseFromResult(w_msg.task, o.result)
    /\ w_pc' = "finally"
    /\ UNCHANGED <<notWorkerVars, w_status, w_current_task, w_msg, w_error,
                   w_sends, w_failed, w_handled, w_escaped, w_starts, w_stopped,
                   hb_live, hb_task, hb_count>>

\* Lines 274-279: the finally block; when its status broadcast raises,
\* execute_task raises into _handle_task_assignment.
WorkerFinally(raised) ==
    /\ w_pc = "finally"
    /\ w_current_task' = NoTask
    /\ w_status' = IDLE
    /\ w_pc' = IF raised THEN "error_inner" ELSE "respond"
    /\ w_failed' = (raised \/ w_failed)
    /\ w_error' = IF raised THEN BusErrorText ELSE w_error
    /\ UNCHANGED <<notWorkerVars, w_msg, w_outcome, w_response, w_sends,
                   w_handled, w_escaped, w_starts, w_stopped, hb_live, hb_task,
                   hb_count>>

\* Lines 310-319: the response is sent to the sender.
WorkerRespond(raised) ==
    /\ w_pc = "respond"
    /\ w_sends' = SendToAgent(w_sends, ResultMessage(w_msg, w_response), raised)
    /\ w_pc' = IF raised THEN "error_inner" ELSE "idle"
    /\ w_failed' = (raised \/ w_failed)
    /\ w_error' = IF raised THEN BusErrorText ELSE w_error
    /\ UNCHANGED <<notWorkerVars, w_status, w_current_task, w_msg, w_outcome,
                   w_response, w_handled, w_escaped, w_starts, w_stopped,
                   hb_live, hb_task, hb_count>>

\* Lines 321-323: _handle_task_assignment's except branch sends the ERROR;
\* a send that raises leaves the handler.
WorkerErrorInner(raised) ==
    /\ w_pc = "error_inner"
    /\ w_sends' = SendToAgent(w_sends, ErrorMessage(w_msg, w_error), raised)
    /\ w_pc' = IF raised THEN "error_outer" ELSE "idle"
    /\ w_error' = IF raised THEN BusErrorText ELSE w_error
    /\ UNCHANGED <<notWorkerVars, w_status, w_current_task, w_msg, w_outcome,
                   w_response, w_failed, w_handled, w_escaped, w_starts,
                   w_stopped, hb_live, hb_task, hb_count>>

\* Lines 156-158: handle_message's except branch sends the ERROR; a send
\* that raises leaves handle_message.
WorkerErrorOuter(raised) ==
    /\ w_pc = "error_outer"
    /\ w_sends' = SendToAgent(w_sends, ErrorMessage(w_msg, w_error), raised)
    /\ w_pc' = "idle"
    /\ w_escaped' = IF raised THEN w_escaped + 1 ELSE w_escaped
    /\ UNCHANGED <<notWorkerVars, w_status, w_current_task, w_msg, w_outcome,
                   w_response, w_error, w_failed, w_handled, w_starts, w_stopped,
                   hb_live, hb_task, hb_count>>

InitWorker ==
    /\ DagOff
    /\ CoordOff
    /\ WorkerOff
    /\ BusOff
    /\ PrpOff
    /\ PlanOff
    /\ RemoteOff

NextWorker ==
    \/ WorkerStart
    \/ WorkerStop
    \/ \E l \in 1..MaxStarts, raised \in BOOLEAN : Heartbeat(l, raised)
    \/ \E m \in AllInbound, raised \in BOOLEAN : WorkerReceive(m, raised)
    \/ \E o \in AllOutcomes : WorkerImpl(o)
    \/ \E raised \in BOOLEAN : WorkerFinally(raised)
    \/ \E raised \in BOOLEAN : WorkerRespond(raised)
    \/ \E raised \in BOOLEAN : WorkerErrorInner(raised)
    \/ \E raised \in BOOLEAN : WorkerErrorOuter(raised)

SpecWorker == InitWorker /\ [][NextWorker]_vars

\* ---------------------------------------------------------------- C12
\* The send_to_agent calls of ERROR messages made for the message at hand,
\* and those among them that delivered the message.
ErrorAttempts == {i \in 1..Len(w_sends) : w_sends[i].kind = "error"}
ErrorsDelivered == {i \in ErrorAttempts : w_sends[i].delivered}

\* A call of handle_message has ended whose task assignment handler raised.
AssignmentFailedAndHandled ==
    /\ w_pc = "idle"
    /\ w_msg.message_type = "task_assignment"
    /\ w_failed

C13_HandleMessageNeverRaises == w_escaped = 0

C15_NoHeartbeatAfterStop ==
    [][hb_count' > hb_count => ~w_stopped]_vars

\* ---------------------------------------------------------------- C19
\* The step in which the handler of the message at hand raises.
HandlerRaises == w_pc # "error_inner" /\ w_pc' = "error_inner"

\* C19: a step in which the inbound-message handler raises while the status
\* is IDLE or BUSY sets the status to ERROR; every other change of the
\* status is IDLE to BUSY, BUSY to IDLE, or a stop() setting OFFLINE (the
\* IDLE that start() sets is admitted as well).
C19_StatusTransitions ==
    [][/\ (HandlerRaises /\ w_status \in {IDLE, BUSY}) => w_status' = ERROR
       /\ (~HandlerRaises /\ w_status' # w_status) =>
             \/ w_status = IDLE /\ w_status' = BUSY
             \/ w_status = BUSY /\ w_status' = IDLE
             \/ w_status' = OFFLINE /\ w_stopped'
             \/ w_status' = IDLE /\ w_starts' > w_starts
      ]_vars

\* ------------------------------------------------ message bus: actions
\* communication/message_bus/redis_messenger.py, class RedisMessageBus.

\* What redis_client.publish can do: raise, or report a receiver count.
RedisOutcomes ==
    {[raised |-> TRUE, receivers |-> 0]}
        \cup {[raised |-> FALSE, receivers |-> n] : n \in 0..MaxReceivers}

\* A return value that ignores the receiver count.
PublishReturnAny(result) == result >= 0

\* Line 110: return result > 0.
PublishReturn(result) == result > 0

\* publish(), lines 89-114: connect when there is no client, serialise the
\* message, call redis_client.publish once; any exception is caught by the
\* except branch, which returns False.
PublishCall(c, client, connect_ok, serial_ok, redis) ==
    IF ~client /\ ~connect_ok
    THEN [called |-> TRUE, channel |-> c, returned |-> FALSE, raised |-> FALSE,
          attempts |-> 0, unreachable |-> TRUE, failed |-> FALSE,
          receivers |-> 0]
    ELSE IF ~serial_ok
    THEN [called |-> TRUE, channel |-> c, returned |-> FALSE, raised |-> FALSE,
          attempts |-> 0, unreachable |-> FALSE, failed |-> FALSE,
          receivers |-> 0]
    ELSE IF redis.raised
    THEN [called |-> TRUE, channel |-> c, returned |-> FALSE, raised |-> FALSE,
          attempts |-> 1, unreachable |-> FALSE, failed |-> TRUE,
          receivers |-> 0]
    ELSE [called |-> TRUE, channel |-> c, returned |-> PublishReturn(redis.receivers),
          raised |-> FALSE, attempts |-> 1, unreachable |-> FALSE,
          failed |-> FALSE, receivers |-> redis.receivers]

\* One call of publish(). connect() assigns redis_client before it pings
\* (lines 52-56), so the client is set after the call whether or not the
\* connection came up.
Publish(c, connect_ok, serial_ok, redis) ==
    /\ pub_calls < MaxPublishes
    /\ pub_calls' = pub_calls + 1
    /\ pub_last' = PublishCall(c, bus_client, connect_ok, serial_ok, redis)
    /\ bus_client' = TRUE
    /\ bus_wire' = IF pub_last'.attempts = 1
                   THEN Append(bus_wire, [call |-> pub_calls', channel |-> c])
                   ELSE bus_wire
    /\ UNCHANGED <<notBusVars, subscribers, bus_loop, bus_listened, bus_inbox,
                   bus_received, bus_cur, bus_i, bus_log>>

\* The number of subscribe() calls made so far.
SubscribeCalls ==
    Cardinality(UNION {{<<c, i>> : i \in DOMAIN subscribers[c]} : c \in Channels})

\* subscribe(), lines 116-133: the handler is appended to the channel's
\* list, whether or not it is already there.
Subscribe(c, h) ==
    /\ SubscribeCalls < MaxSubs
    /\ subscribers' = [subscribers EXCEPT ![c] = Append(@, h)]
    /\ UNCHANGED <<notBusVars, pubVars, bus_loop, bus_listened,
                   bus_inbox, bus_received, bus_cur, bus_i, bus_log>>

\* start_listening(), lines 135-153: returns at once when nothing is
\* subscribed; otherwise subscribes the pubsub client to the channels that
\* have handlers now and enters the loop.
StartListening ==
    /\ bus_loop = "off"
    /\ \E c \in Channels : subscribers[c] # <<>>
    /\ bus_listened' = {c \in Channels : subscribers[c] # <<>>}
    /\ bus_loop' = "running"
    /\ UNCHANGED <<notBusVars, pubVars, subscribers, bus_inbox,
                   bus_received, bus_cur, bus_i, bus_log>>

\* Redis delivers a message on a listened channel to the pubsub client.
\* decodable says whether the payload deserialises to an AgentMessage.
BusReceive(c, decodable) ==
    /\ bus_loop = "running"
    /\ c \in bus_listened
    /\ bus_received < MaxBusMsgs
    /\ bus_received' = bus_received + 1
    /\ bus_inbox' = Append(bus_inbox,
                           [id |-> bus_received + 1, channel |-> c,
                            decodable |-> decodable])
    /\ UNCHANGED <<notBusVars, pubVars, subscribers, bus_loop,
                   bus_listened, bus_cur, bus_i, bus_log>>

\* Lines 155-162 and 178-193: the loop takes the next message and calls
\* _handle_message, which deserialises it; a payload that does not
\* deserialise is logged by the outer except (208-209) and dropped.
HandleNext ==
    /\ bus_loop = "running"
    /\ bus_i = 0
    /\ bus_inbox # <<>>
    /\ bus_cur' = Head(bus_inbox)
    /\ bus_inbox' = Tail(bus_inbox)
    /\ bus_i' = IF Head(bus_inbox).decodable
                   /\ subscribers[Head(bus_inbox).channel] # <<>>
                THEN 1 ELSE 0
    /\ UNCHANGED <<notBusVars, pubVars, subscribers, bus_loop,
                   bus_listened, bus_received, bus_log>>

\* A handler exception that is not caught ends the loop.
LoopAfterHandlerUncaught(raised) == IF raised THEN "dead" ELSE "running"

\* Lines 198-204: the call of one handler sits in its own try/except, so
\* the loop goes on whatever the handler does.
LoopAfterHandler(raised) == "running"

\* Lines 196-204: one iteration of `for handler in self.subscribers[channel]`.
InvokeHandler(raised) ==
    /\ bus_loop = "running"
    /\ bus_i >= 1
    /\ bus_log' = Append(bus_log,
                         [msg |-> bus_cur.id, channel |-> bus_cur.channel,
                          handler |-> subscribers[bus_cur.channel][bus_i],
                          slot |-> bus_i, raised |-> raised])
    /\ bus_loop' = LoopAfterHandler(raised)
    /\ bus_i' = IF bus_loop' = "running"
                   /\ bus_i < Len(subscribers[bus_cur.channel])
                THEN bus_i + 1 ELSE 0
    /\ UNCHANGED <<notBusVars, pubVars, subscribers,
                   bus_listened, bus_inbox, bus_received, bus_cur>>

\* Lines 167-169: an error of pubsub.listen() itself is re-raised and ends
\* start_listening.
ListenFails ==
    /\ bus_loop = "running"
    /\ bus_i = 0
    /\ bus_loop' = "dead"
    /\ UNCHANGED <<notBusVars, pubVars, subscribers,
                   bus_listened, bus_inbox, bus_received, bus_cur, bus_i,
                   bus_log>>

InitBus ==
    /\ DagOff
    /\ CoordOff
    /\ WorkerOff
    /\ BusOff
    /\ PrpOff
    /\ PlanOff
    /\ RemoteOff

NextPublish ==
    \E c \in Channels, connect_ok \in BOOLEAN, serial_ok \in BOOLEAN,
       redis \in RedisOutcomes :
          Publish(c, connect_ok, serial_ok, redis)

SpecPublish == InitBus /\ [][NextPublish]_vars

NextBus ==
    \/ \E c \in Channels, h \in Handlers : Subscribe(c, h)
    \/ StartListening
    \/ \E c \in Channels, decodable \in BOOLEAN : BusReceive(c, decodable)
    \/ HandleNext
    \/ \E raised \in BOOLEAN : InvokeHandler(raised)
    \/ ListenFails

SpecBus == InitBus /\ [][NextBus]_vars

InvokedFor(m) == SelectSeq(bus_log, LAMBDA e : e.msg = m)

\* The handlers called for message m, in call order.
HandlersInvokedFor(m) ==
    [k \in 1..Len(InvokedFor(m)) |-> InvokedFor(m)[k].handler]

\* C17: a handler that raises does not stop the listening loop: the loop is
\* still running after every handler call, the next handler of the channel's
\* list is the next one called, and when _handle_message is through with a
\* message every handler of the channel's list has been called for it.
C17_HandlerExceptionDoesNotStopLoop ==
    [][Len(bus_log') > Len(bus_log) =>
          /\ bus_loop' = "running"
          /\ bus_i' # 0 => bus_i' = bus_i + 1
          /\ bus_i' = 0 =>
                HandlersInvokedFor(bus_cur.id)' = subscribers[bus_cur.channel]
      ]_vars

\* The first handler raised on the first message; the second handler was
\* called for it all the same, and a handler was called for the next message.
C17_Witness ==
    \E i, j, k \in DOMAIN bus_log :
        /\ i < j /\ j < k
        /\ bus_log[i].raised
        /\ bus_log[j].msg = bus_log[i].msg
        /\ bus_log[j].slot = bus_log[i].slot + 1
        /\ bus_log[k].msg > bus_log[i].msg

\* C18: per channel, each handler is called at most once for a received
\* message, the handlers see the messages in the order they were received,
\* and the calls for one message are over before those for the next begin.
C18_AtMostOncePerMessageInOrder ==
    /\ \A i, j \in DOMAIN bus_log :
          (bus_log[i].msg = bus_log[j].msg
              /\ bus_log[i].handler = bus_log[j].handler) => i = j
    /\ \A i, j \in DOMAIN bus_log :
          (i < j /\ bus_log[i].channel = bus_log[j].channel)
              => bus_log[i].msg <= bus_log[j].msg
    /\ \A i, j, k \in DOMAIN bus_log :
          (i < j /\ j < k /\ bus_log[i].msg = bus_log[k].msg)
              => bus_log[j].msg = bus_log[i].msg

\* ------------------------------------------------ PRP processor: actions
\* agent_factory/workflows/prp_engine.py, class AgentPRPProcessor.

\* A keyword test that skips lower().
IsVagueCaseSensitive(step) ==
    \E keyword \in VagueKeywords : Contains(step, keyword)

\* Line 61: any(keyword in step.lower() for keyword in vague_keywords).
IsVague(step) ==
    \E keyword \in VagueKeywords : Contains(LowerText(step), keyword)

RECURSIVE VagueErrors(_, _)
\* Lines 60-62: one error per vague step, numbered from 1, in step order.
VagueErrors(steps, i) ==
    IF i > Len(steps) THEN <<>>
    ELSE (IF IsVague(steps[i])
          THEN <<<<"Implementation step is too vague", i>>>>
          ELSE <<>>) \o VagueErrors(steps, i + 1)

\* Lines 39-62: the error list of validate_prp.
ValidationErrors(prp) ==
    (IF prp.goal = EmptyText THEN <<<<"PRP must have a goal">>>> ELSE <<>>)
    \o (IF prp.justification = EmptyText
        THEN <<<<"PRP must have justification">>>> ELSE <<>>)
    \o (IF prp.implementation_steps = <<>>
        THEN <<<<"PRP must have implementation steps">>>> ELSE <<>>)
    \o (IF prp.validation_criteria = <<>>
        THEN <<<<"PRP must have validation criteria">>>> ELSE <<>>)
    \o (IF Len(prp.implementation_steps) < 2
        THEN <<<<"PRP should have at least 2 implementation steps">>>>
        ELSE <<>>)
    \o VagueErrors(prp.implementation_steps, 1)

\* validate_prp, lines 30-69 (is_valid and errors of the returned dict).
validate_prp(prp) ==
    [is_valid |-> ValidationErrors(prp) = <<>>,
     errors |-> ValidationErrors(prp)]

\* Lines 207-210: the failure returned for an invalid PRP.
ValidationFailure(validation) ==
    Failure(<<<<"PRP validation failed", validation.errors>>>>)

KnowledgeErrorText == <<"knowledge base error">>

\* What agent.process_prp may do: raise, or return a result.
PrpOutcomes ==
    {[kind |-> "raise", text |-> ImplErrorText, result |-> NoResult],
     [kind |-> "result", text |-> NoneText, result |-> Success(EmptyOutput)],
     [kind |-> "result", text |-> NoneText, result |-> Failure(<<"e1">>)]}

\* Lines 206-210: validate, and return the failure when the PRP is invalid.
PrpValidate ==
    /\ pe_pc = "new"
    /\ pe_validation' = validate_prp(pe_prp)
    /\ IF pe_validation'.is_valid
       THEN pe_pc' = "valid" /\ UNCHANGED pe_result
       ELSE pe_pc' = "done" /\ pe_result' = ValidationFailure(pe_validation')
    /\ UNCHANGED <<notPrpVars, pe_prp, pe_invoked>>

\* Line 213: enhance_prp_with_context; a knowledge base error is caught by
\* the except branch (223-225), which returns a failure.
PrpEnhance(raised) ==
    /\ pe_pc = "valid"
    /\ IF raised
       THEN pe_pc' = "done" /\ pe_result' = Failure(<<KnowledgeErrorText>>)
       ELSE pe_pc' = "enhanced" /\ UNCHANGED pe_result
    /\ UNCHANGED <<notPrpVars, pe_prp, pe_validation, pe_invoked>>

\* Lines 216-221: agent.process_prp is called, the outcome is stored
\* (_store_prp_execution_outcome catches its own errors) and returned; an
\* exception of process_prp is turned into a failure (223-225).
PrpProcess(o) ==
    /\ pe_pc = "enhanced"
    /\ pe_invoked' = pe_invoked + 1
    /\ pe_result' = IF o.kind = "raise" THEN Failure(<<o.text>>) ELSE o.result
    /\ pe_pc' = "done"
    /\ UNCHANGED <<notPrpVars, pe_prp, pe_validation>>

InitPrp ==
    /\ DagOff
    /\ CoordOff
    /\ WorkerOff
    /\ BusOff
    /\ PlanOff
    /\ RemoteOff
    /\ pe_prp \in PrpInputs
    /\ pe_pc = "new"
    /\ pe_validation = NoValidation
    /\ pe_result = NoResult
    /\ pe_invoked = 0

NextPrp ==
    \/ PrpValidate
    \/ \E raised \in BOOLEAN : PrpEnhance(raised)
    \/ \E o \in PrpOutcomes : PrpProcess(o)

SpecPrp == InitPrp /\ [][NextPrp]_vars

\* C20: execute_prp_with_agent rejects every PRP that lacks a goal, a
\* justification, implementation steps or validation criteria, that has
\* fewer than two steps, or that has a step containing a vague keyword: once
\* validation has run it has returned a failure and agent.process_prp has
\* not been called.
C20_InvalidPrpNeverReachesAgent ==
    (/\ pe_pc \notin {"off", "new"}
     /\ \/ pe_prp.goal = EmptyText
        \/ pe_prp.justification = EmptyText
        \/ pe_prp.implementation_steps = <<>>
        \/ pe_prp.validation_criteria = <<>>
        \/ Len(pe_prp.implementation_steps) < 2
        \/ \E i \in DOMAIN pe_prp.implementation_steps :
              \E keyword \in VagueKeywords :
                 Contains(LowerText(pe_prp.implementation_steps[i]), keyword))
    => /\ pe_pc = "done"
       /\ ~pe_result.is_successful
       /\ pe_result = ValidationFailure(pe_validation)
       /\ pe_invoked = 0

\* A PRP with every field filled and two steps, one of which says "Maybe",
\* has been rejected.
C20_Witness ==
    /\ pe_pc = "done"
    /\ pe_prp.goal # EmptyText
    /\ pe_prp.justification # EmptyText
    /\ pe_prp.validation_criteria # <<>>
    /\ Len(pe_prp.implementation_steps) = 2
    /\ \E i \in DOMAIN pe_prp.implementation_steps :
          pe_prp.implementation_steps[i][1] = "M"
    /\ ~pe_result.is_successful
    /\ pe_invoked = 0

\* ------------------------------------------- planning functions: actions
\* agent_factory/agents/coordinator.py, the pure steps of _execute_prp.

\* _decompose_prp_to_tasks applied to the PRP at hand.
PlanDecompose ==
    /\ pl_pc = "prp"
    /\ pl_in' = DecomposePrpToTasks(pl_steps)
    /\ pl_pc' = "decomposed"
    /\ UNCHANGED <<notPlanVars, pl_steps, pl_done, pl_sorted, pl_batches>>

\* _sort_tasks_by_priority applied to the task list at hand.
PlanSort ==
    /\ pl_pc \in {"decomposed", "list"}
    /\ "sort" \notin pl_done
    /\ pl_sorted' = SortTasksByPriority(pl_in)
    /\ pl_done' = pl_done \cup {"sort"}
    /\ UNCHANGED <<notPlanVars, pl_pc, pl_steps, pl_in, pl_batches>>

\* _create_task_batches applied to the task list at hand.
PlanBatch ==
    /\ pl_pc \in {"decomposed", "list"}
    /\ "batch" \notin pl_done
    /\ pl_batches' = CreateTaskBatches(pl_in)
    /\ pl_done' = pl_done \cup {"batch"}
    /\ UNCHANGED <<notPlanVars, pl_pc, pl_steps, pl_in, pl_sorted>>

\* Either a PRP to decompose, or a task list given directly.
InitPlan ==
    /\ DagOff
    /\ CoordOff
    /\ WorkerOff
    /\ BusOff
    /\ PrpOff
    /\ RemoteOff
    /\ pl_done = {}
    /\ pl_sorted = <<>>
    /\ pl_batches = <<>>
    /\ \/ /\ pl_pc = "prp"
          /\ pl_steps \in UNION {[1..n -> PlanStepPool] : n \in 0..MaxPlanSteps}
          /\ pl_in = <<>>
       \/ /\ pl_pc = "list"
          /\ pl_steps = <<>>
          /\ pl_in \in PlanTaskLists

NextPlan ==
    \/ PlanDecompose
    \/ PlanSort
    \/ PlanBatch

SpecPlan == InitPlan /\ [][NextPlan]_vars

\* C21: the validation task of a decomposed PRP has its dependencies field
\* equal to the set of ids of the step tasks of the same PRP.
C21_ValidationDependsOnSteps ==
    pl_pc = "decomposed" =>
        pl_in[Len(pl_in)].dependencies =
            {pl_in[i].id : i \in 1..Len(pl_steps)}

\* The type the elif chain of _classify_implementation_step gives each of
\* the step texts in use.
ExpectedType(step) ==
    IF step = {"coding", "testing"} THEN "coding"
    ELSE IF step = {"deployment"} THEN "deployment"
    ELSE "general"

\* C22: a PRP of n steps decomposes into n + 1 tasks in order: task i
\* describes step i, is HIGH for the first three steps and MEDIUM after, has
\* no dependencies and carries its classified type; the last task is the
\* CRITICAL validation task.
C22_DecomposeShape ==
    pl_pc = "decomposed" =>
        /\ Len(pl_in) = Len(pl_steps) + 1
        /\ \A i \in 1..Len(pl_steps) :
              /\ pl_in[i].description = pl_steps[i]
              /\ pl_in[i].priority = (IF i <= 3 THEN "high" ELSE "medium")
              /\ pl_in[i].dependencies = {}
              /\ pl_in[i].task_type = ExpectedType(pl_steps[i])
        /\ pl_in[Len(pl_in)].task_type = "validation"
        /\ pl_in[Len(pl_in)].priority = "critical"

\* A PRP of four steps, whose fourth task is MEDIUM.
C22_Witness ==
    /\ pl_pc = "decomposed"
    /\ Len(pl_steps) = 4
    /\ pl_in[4].priority = "medium"
    /\ pl_in[1].task_type = "coding"

\* The rank the sentence gives each priority: CRITICAL, HIGH, MEDIUM, LOW.
RankOf(p) ==
    IF p = "critical" THEN 1
    ELSE IF p = "high" THEN 2
    ELSE IF p = "medium" THEN 3
    ELSE 4

\* C23: _sort_tasks_by_priority returns a permutation of its input ordered
\* CRITICAL, HIGH, MEDIUM, LOW, and tasks of equal priority keep their
\* relative input order (ids are input positions).
C23_SortIsStablePermutation ==
    "sort" \in pl_done =>
        /\ Len(pl_sorted) = Len(pl_in)
        /\ \A i \in DOMAIN pl_in : \E j \in DOMAIN pl_sorted : pl_sorted[j] = pl_in[i]
        /\ \A i, j \in DOMAIN pl_sorted :
              i < j =>
                 /\ RankOf(pl_sorted[i].priority) <= RankOf(pl_sorted[j].priority)
                 /\ pl_sorted[i].priority = pl_sorted[j].priority
                       => pl_sorted[i].id < pl_sorted[j].id

\* A list LOW, CRITICAL, LOW was sorted: the CRITICAL task moved to the
\* front and the two LOW tasks kept their order.
C23_Witness ==
    /\ "sort" \in pl_done
    /\ Len(pl_in) = 3
    /\ pl_in[1].priority = "low"
    /\ pl_in[2].priority = "critical"
    /\ pl_in[3].priority = "low"
    /\ pl_sorted[1].id = 2
    /\ pl_sorted[2].id = 1
    /\ pl_sorted[3].id = 3

\* C26: in the batches of _create_task_batches every validation task is
\* the only task of its batch, wherever it stands in the input.
C26_ValidationRunsAlone ==
    "batch" \in pl_done =>
        \A k \in DOMAIN pl_batches :
            (\E i \in DOMAIN pl_batches[k] :
                pl_batches[k][i].task_type = "validation")
            => Len(pl_batches[k]) = 1

\* ------------------------------------- dependency batching: termination
\* The "priority" the planner gave each task of the list: the first task
\* is CRITICAL, the others are not.
DagPriority(t) == IF t = 1 THEN "critical" ELSE "medium"

\* asyncio runs every coroutine that can run: sleeps return, send_task
\* returns or raises.
DagFairness == WF_vars(NextDag)

SpecDagFair == SpecDag /\ DagFairness

\* C25: once a CRITICAL task of an executed ready set has failed, no
\* further task is dispatched.
C25_CriticalFailureStopsDispatch ==
    [][(\E t \in dag_errors \cap completed_tasks : DagPriority(t) = "critical")
          => dag_dispatched' = dag_dispatched]_vars

\* C27: when the dependencies form a DAG over the list's own ids the loop
\* ends, and at its end every task of the list was dispatched exactly once.
C27_DagTerminatesEachTaskOnce ==
    IsDag(dag_n, task_dependencies) =>
        /\ <>(dag_pc = "done")
        /\ [](dag_pc = "done" => \A t \in 1..dag_n : dag_dispatched[t] = 1)

\* The loop ended for a chain of three tasks, each depending on the one
\* before, after three ready sets of one task.
C27_Witness ==
    /\ dag_pc = "done"
    /\ dag_n = 3
    /\ task_dependencies[2] = {1}
    /\ task_dependencies[3] = {2}
    /\ \A t \in 1..dag_n : dag_dispatched[t] = 1

\* ------------------------------------- agent coordinator: remote workers
\* base.py 225-279: the execute_task the assigned worker runs for task t,
\* once the assignment was sent to it, returns.
WorkerFinishes(t) ==
    /\ runq = <<>>
    /\ \E m \in wk_inbox : m.task = t
    /\ t \notin wk_finished
    /\ wk_finished' = wk_finished \cup {t}
    /\ UNCHANGED <<dagVars, coordVars, workerVars, busVars, prpVars, planVars,
                   wk_inbox, completed_in_wait>>

NextCoordRemote ==
    \/ NextCoord
    \/ \E t \in TaskIds : WorkerFinishes(t)

SpecCoordRemote == InitCoord /\ [][NextCoordRemote]_vars

C28_TimeoutChangesNothing ==
    [][\A t \in TaskIds :
          (/\ co_pc[t] = "poll"
           /\ co_pc'[t] = "done"
           /\ co_result'[t] = Failure(<<TimedOutError(t)>>))
          => /\ wk_inbox' = wk_inbox
             /\ available_agents' = available_agents
             /\ task_assignments' = task_assignments
      ]_vars

\* A wait timed out: the worker got the assignment and nothing else, and
\* the registry still has the agent BUSY with the task.
C28_Witness ==
    \E t \in TaskIds :
        /\ co_pc[t] = "done"
        /\ co_result[t] = Failure(<<TimedOutError(t)>>)
        /\ task_assignments[t] # None
        /\ wk_inbox = {AssignmentMessage(task_assignments[t], t)}
        /\ InRegistry(available_agents, task_assignments[t])
        /\ RegGet(available_agents, task_assignments[t]).status = BUSY
        /\ RegGet(available_agents, task_assignments[t]).current_task = t

\* C29: a wait during which the coordinator handled the task_completed
\* message naming its task and the assigned agent returns a success result.
C29_CompletionMessageEndsWaitWithSuccess ==
    \A t \in TaskIds :
        (t \in completed_in_wait /\ co_pc[t] = "done") => co_result[t].is_successful

\* ------------------------------- worker: stop() beside a call in flight
\* base.py 171-174: process_prp is called on the started worker and sets
\* the status BUSY before its first await.
WorkerProcessPrp ==
    /\ w_pc = "idle"
    /\ w_status' = BUSY
    /\ w_pc' = "prp"
    /\ UNCHANGED <<notWorkerVars, w_current_task, w_msg, w_outcome, w_response,
                   w_error, w_sends, w_failed, w_handled, w_escaped, w_starts,
                   w_stopped, hb_live, hb_task, hb_count>>

\* base.py 176-211: _execute_prp returns or raises, and the finally block
\* sets the status IDLE and broadcasts it.
WorkerPrpFinally ==
    /\ w_pc = "prp"
    /\ w_status' = IDLE
    /\ w_pc' = "idle"
    /\ UNCHANGED <<notWorkerVars, w_current_task, w_msg, w_outcome, w_response,
                   w_error, w_sends, w_failed, w_handled, w_escaped, w_starts,
                   w_stopped, hb_live, hb_task, hb_count>>

\* base.py 124-140: stop() runs while execute_task, process_prp or a reply
\* of the worker is suspended at an await.
WorkerStopInFlight ==
    /\ w_pc \in {"impl", "prp", "respond", "error_inner", "error_outer"}
    /\ hb_live' = hb_live \ {hb_task}
    /\ w_status' = OFFLINE
    /\ w_stopped' = TRUE
    /\ UNCHANGED <<notWorkerVars, w_current_task, w_pc, w_msg, w_outcome,
                   w_response, w_error, w_sends, w_failed, w_handled, w_escaped,
                   w_starts, hb_task, hb_count>>

NextWorkerStop ==
    \/ NextWorker
    \/ WorkerProcessPrp
    \/ WorkerPrpFinally
    \/ WorkerStopInFlight

SpecWorkerStop == InitWorker /\ [][NextWorkerStop]_vars

\* C30: from the return of stop() until the next start() the status of the
\* worker is OFFLINE. (Every assignment to info.status is followed by the
\* broadcast of the status just set, lines 119-120, 137-138, 173-174,
\* 210-211, 240-241, 278-279.)
C30_StoppedWorkerStaysOffline == w_stopped => w_status = OFFLINE

====
